---- MODULE Spec2Model ----
(***************************************************************************)
(* Budget-Tracker: the aggregate-maintenance logic of                      *)
(* SupabaseTransactionRepository (create / update / delete keep            *)
(* budgets.spent in step with the expense transactions of a budget) and    *)
(* the optimistic query cache of useBudgets / useTransactions.             *)
(*                                                                         *)
(* Amounts are numeric(10,2) columns; they are modelled in cents.          *)
(* Every await of the repository is one step of a caller, so that calls    *)
(* of two callers interleave exactly at the awaits.                        *)
(***************************************************************************)
EXTENDS Integers, Sequences, FiniteSets, TLC

\* ---------------------------------------------------------------- bounds
MaxTxns == 2
MaxCalls == 3
MaxFaults == 1
MaxRaces == 1
MaxMutations == 1
MaxPending == 1
MaxExternal == 1
MaxOverlap == 2
MaxAuthCalls == 2
MaxAuthEvents == 2

\* ------------------------------------------------------------ value sets
Procs == {"p1", "p2"}
BudgetIds == {"A", "B"}
TxnIds == 1..MaxTxns
Types == {"income", "expense"}
Amounts == {8000, 12000}
\* a column holding NULL, an input field left undefined, a row that is absent
Null == "null"
Undef == "undefined"
UndefAmount == -1
NoRow == [absent |-> TRUE]

CreateInputs == [budgetId : BudgetIds \cup {Undef}, type : Types, amount : Amounts]
UpdateInputs == [budgetId : BudgetIds \cup {Null, Undef},
                 type : Types \cup {Undef},
                 amount : Amounts \cup {UndefAmount}]

VARIABLES
    budgets,    \* table budgets: id -> [amount, spent] or NoRow
    txns,       \* table transactions: id -> [budgetId, type, amount] or NoRow
    nextId,     \* the next identifier the store hands out on insert
    pc,         \* per caller: the await it is suspended at
    call,       \* per caller: the repository method and the row it names
    old,        \* per caller: oldTransaction / transaction fetched by getById
    data,       \* per caller: the row returned by the write
    adj,        \* per caller: the updateBudgetSpent calls still to make
    rd,         \* per caller: the budget row read inside updateBudgetSpent
    ret,        \* per caller: how the call ended ("ok" / "error")
    ncalls,     \* number of calls issued so far
    \* history of a call and of the run, used to state the properties
    failed,     \* per caller: a persistence step of this call failed
    solo,       \* per caller: no other call was in flight during this call
    before,     \* per caller: the budgets table when the call started
    touched,    \* per caller: the budgets this call has written
    drift,      \* per caller: spent minus the linked expenses when the call started
    nfaults,    \* number of persistence steps that failed on the way so far
    nraces,     \* number of calls started while another call was in flight
    scen        \* progress through the create / update / delete scenario

\* the query cache of useBudgets / useTransactions and what is in flight
VARIABLES
    cache,      \* per query key: [data, invalidated, fetching, resp]
    muts,       \* per mutation in flight: position, variables, onMutate context
    events,     \* change events of the push subscription not yet delivered
    freeIds,    \* budget identifiers the store has not handed out yet
    nmuts,      \* number of mutations issued so far
    nexternal   \* number of changes made elsewhere (another tab or device)

\* the dialog that is open
VARIABLES
    form        \* [dialog, raw, pending, error]: the last submission

\* SupabaseAuthRepository: the operation under way and the identity provider
VARIABLES
    apc,        \* where the operation awaits: idle, signIn, getSession, getUser
    aop,        \* the operation under way or last finished
    env,        \* how the provider treats each of its calls in this operation
    timers,     \* the setTimeout timers that have not fired yet
    sess,       \* history: what the race on getSession yielded
    usr,        \* history: what the race on getUser yielded
    aresult,    \* how the operation ended: a user, null, or an error thrown
    nauth       \* number of operations started so far

\* AuthProvider (the effect run on mount) and a ProtectedRoute below it
VARIABLES
    variant,        \* which of the two versions of AuthProvider is running
    mounted,        \* let mounted: false once the cleanup of the effect ran
    loading,        \* useState(true)
    user,           \* useState(null)
    isInitialized,  \* let isInitialized (second version only)
    timeoutId,      \* the safety timer: armed, fired or cleared
    initAuth,       \* where initAuth() awaits, or done
    handlers,       \* onAuthStateChange callbacks awaiting getCurrentUser
    nevents,        \* number of auth state events delivered so far
    view            \* what ProtectedRoute rendered last

storeVars == <<budgets, txns, nextId>>
callVars == <<pc, call, old, data, adj, rd, ret, ncalls,
              failed, solo, before, touched, drift, nfaults, nraces, scen>>
cacheVars == <<cache, muts, events, freeIds, nmuts, nexternal>>
provVars == <<variant, mounted, loading, user, isInitialized, timeoutId, initAuth,
              handlers, nevents, view>>
authVars == <<apc, aop, env, timers, sess, usr, aresult, nauth, provVars>>
hookVars == <<cacheVars, form, authVars>>
vars == <<storeVars, callVars, hookVars>>

NoCall == [name |-> "none", id |-> 0]

\* ------------------------------------------------- the store's own rules
\* transactions.budget_id REFERENCES budgets(id): a write naming a budget
\* that does not exist is refused
FkOk(b) == b \in {Null, Undef} \/ (b \in BudgetIds /\ budgets[b] # NoRow)

\* ON DELETE set null: deleting a budget clears the reference of its rows
SetNullOnDeleteCascade(b) ==
    [t \in TxnIds |->
        IF txns[t] # NoRow /\ txns[t].budgetId = b THEN NoRow ELSE txns[t]]
SetNullOnDelete(b) ==
    [t \in TxnIds |->
        IF txns[t] # NoRow /\ txns[t].budgetId = b
        THEN [txns[t] EXCEPT !.budgetId = Null]
        ELSE txns[t]]

\* ------------------------------------------- SupabaseTransactionRepository
\* the row insert() writes: budget_id is NULL when input.budgetId is undefined
InsertRow(input) ==
    [budgetId |-> IF input.budgetId = Undef THEN Null ELSE input.budgetId,
     type |-> input.type,
     amount |-> input.amount]

\* updateData: only the fields of the input that are not undefined
UpdateRow(row, input) ==
    [budgetId |-> IF input.budgetId # Undef THEN input.budgetId ELSE row.budgetId,
     type |-> IF input.type # Undef THEN input.type ELSE row.type,
     amount |-> IF input.amount # UndefAmount THEN input.amount ELSE row.amount]

Max(a, b) == IF a >= b THEN a ELSE b

\* updateBudgetSpent: the value written back
NewSpentNoClamp(spent, amount, operation) ==
    IF operation = "add" THEN spent + amount ELSE spent - amount
NewSpentSwapped(spent, amount, operation) ==
    Max(0, IF operation = "add" THEN spent - amount ELSE spent + amount)
NewSpent(spent, amount, operation) ==
    Max(0, IF operation = "add" THEN spent + amount ELSE spent - amount)

Adjust(b, amount, operation) == [budgetId |-> b, amount |-> amount, operation |-> operation]

\* the row is an expense that references a budget
Linked(row) == row # NoRow /\ row.budgetId \in BudgetIds /\ row.type = "expense"

\* create: if (input.budgetId && input.type === 'expense')
CreateAdjNone(input) == <<>>
CreateAdjIgnoringType(input) ==
    IF input.budgetId \in BudgetIds
    THEN <<Adjust(input.budgetId, input.amount, "add")>>
    ELSE <<>>
CreateAdj(input) ==
    IF input.budgetId \in BudgetIds /\ input.type = "expense"
    THEN <<Adjust(input.budgetId, input.amount, "add")>>
    ELSE <<>>

\* update: subtract the prior contribution, then add the new one
UpdateAdjAddFirst(o, d) ==
    (IF Linked(d) THEN <<Adjust(d.budgetId, d.amount, "add")>> ELSE <<>>)
    \o (IF Linked(o) THEN <<Adjust(o.budgetId, o.amount, "subtract")>> ELSE <<>>)
UpdateAdjSubIfStillLinked(o, d) ==
    (IF Linked(o) /\ d.budgetId \in BudgetIds
     THEN <<Adjust(o.budgetId, o.amount, "subtract")>> ELSE <<>>)
    \o (IF Linked(d) THEN <<Adjust(d.budgetId, d.amount, "add")>> ELSE <<>>)
UpdateAdjKeepOld(o, d) ==
    IF Linked(d) THEN <<Adjust(d.budgetId, d.amount, "add")>> ELSE <<>>
UpdateAdj(o, d) ==
    (IF Linked(o) THEN <<Adjust(o.budgetId, o.amount, "subtract")>> ELSE <<>>)
    \o (IF Linked(d) THEN <<Adjust(d.budgetId, d.amount, "add")>> ELSE <<>>)

\* delete: subtract the contribution of the fetched row
DeleteAdjNone(o) == <<>>
DeleteAdjIgnoringType(o) ==
    IF o # NoRow /\ o.budgetId \in BudgetIds
    THEN <<Adjust(o.budgetId, o.amount, "subtract")>>
    ELSE <<>>
DeleteAdjAdds(o) ==
    IF Linked(o) THEN <<Adjust(o.budgetId, o.amount, "add")>> ELSE <<>>
DeleteAdj(o) ==
    IF Linked(o) THEN <<Adjust(o.budgetId, o.amount, "subtract")>> ELSE <<>>


\* ------------------------------------------------ the query cache (hooks)
Muts == 1..MaxPending
\* ['budgets', user.id] and ['transactions', user.id, 'all']
Keys == {"budgets", "tx-all"}
TxKeys == {"tx-all"}
\* ... and ['transactions', user.id, budgetId] of the list of budget A
ListKeys == Keys \cup {"tx-A"}
BudgetKinds == {"createBudget", "updateBudget", "deleteBudget"}
TxKinds == {"createTransaction", "updateTransaction", "deleteTransaction"}

\* ---- SupabaseAuthRepository
\* what a call of the provider does: it resolves with a user, resolves with
\* none, resolves with an error, rejects, or never settles
Behaviours == {"user", "null", "error", "throws", "hangs"}
Unused == "unused"
NoEnv == [signIn |-> Unused, getSession |-> Unused, getUser |-> Unused]

NoResult == [kind |-> "none", msg |-> ""]
ReturnsUser(from) == [kind |-> "user", msg |-> from]
ReturnsNull == [kind |-> "null", msg |-> ""]
Throws(msg) == [kind |-> "throws", msg |-> msg]

\* ---- AuthProvider and ProtectedRoute
Variants == {"AuthContext", "part_002"}

\* ProtectedRoute: the spinner while loading, the redirect to /login without
\* a user, the children otherwise
ProtectedRouteUserFirst(l, u) ==
    IF u = Null THEN "redirect" ELSE IF l THEN "spinner" ELSE "children"
ProtectedRoute(l, u) ==
    IF l THEN "spinner" ELSE IF u = Null THEN "redirect" ELSE "children"

\* the provider has rendered for the first time, its effect has not run yet
InitProvider ==
    /\ variant = "none"
    /\ mounted = FALSE
    /\ loading = TRUE
    /\ user = Null
    /\ isInitialized = FALSE
    /\ timeoutId = "none"
    /\ initAuth = "none"
    /\ handlers = 0
    /\ nevents = 0
    /\ view = ProtectedRoute(TRUE, Null)

InitAuthVars ==
    /\ apc = "idle"
    /\ aop = "none"
    /\ env = NoEnv
    /\ timers = {}
    /\ sess = "none"
    /\ usr = "none"
    /\ aresult = NoResult
    /\ nauth = 0
    /\ InitProvider

\* getQueryData gives undefined for a query without data
Undefined == [has |-> FALSE, rows |-> <<>>]
Some(rows) == [has |-> TRUE, rows |-> rows]
NoResp == [has |-> FALSE, rows |-> <<>>]

\* mapToDomain: the entries the collections hold
BudgetEntry(b) == [id |-> b, amount |-> budgets[b].amount, spent |-> budgets[b].spent]
TxnEntry(t) == [id |-> t, budgetId |-> txns[t].budgetId, type |-> txns[t].type,
                amount |-> txns[t].amount]

\* getAll: the budgets, newest first (B is handed out after A)
BudgetRows ==
    (IF budgets["B"] # NoRow THEN <<BudgetEntry("B")>> ELSE <<>>)
    \o (IF budgets["A"] # NoRow THEN <<BudgetEntry("A")>> ELSE <<>>)

\* getAll: the transactions of the user, newest first
RECURSIVE TxnRowsUpTo(_)
TxnRowsUpTo(n) ==
    IF n = 0 THEN <<>>
    ELSE (IF txns[n] # NoRow THEN <<TxnEntry(n)>> ELSE <<>>) \o TxnRowsUpTo(n - 1)

\* getByBudgetId: the transactions that reference the budget, newest first
BudgetTxnRows(b) == SelectSeq(TxnRowsUpTo(MaxTxns), LAMBDA r : r.budgetId = b)

\* queryFn of the key
QueryFn(key) ==
    IF key = "budgets" THEN BudgetRows
    ELSE IF key = "tx-A" THEN BudgetTxnRows("A")
    ELSE TxnRowsUpTo(MaxTxns)

\* ---- the query client
\* cancelQueries: an in-flight fetch is dropped, the query is as before it
Cancelled(q) == [q EXCEPT !.fetching = FALSE, !.resp = NoResp]

\* setQueryData: the data is replaced and counts as just updated
SetQueryData(q, rows) == [q EXCEPT !.data = Some(rows), !.invalidated = FALSE]

\* invalidateQueries on a mounted query: marked stale, any running fetch is
\* replaced by a new one; the data is not touched
InvalidatedNoRefetch(q) == [q EXCEPT !.invalidated = TRUE]
Invalidated(q) == [q EXCEPT !.invalidated = TRUE, !.fetching = TRUE, !.resp = NoResp]

\* the fetch has its answer: the data is replaced by it, nothing of what was
\* cached is merged
FetchedDataKeepsCached(q) == IF q.data.has THEN q.data ELSE Some(q.resp.rows)
FetchedData(q) == Some(q.resp.rows)
FetchedKeepsStale(q) == [data |-> Some(q.resp.rows), invalidated |-> q.invalidated,
                         fetching |-> FALSE, resp |-> NoResp]
Fetched(q) == [data |-> FetchedData(q), invalidated |-> FALSE,
               fetching |-> FALSE, resp |-> NoResp]

\* { ...b, ...input } for the fields an UpdateBudgetInput carries
PatchBudgetResetsSpent(b, input) == [id |-> b.id, amount |-> input.amount, spent |-> 0]
PatchBudget(b, input) == [b EXCEPT !.amount = input.amount]
\* { ...t, ...input } for the fields an UpdateTransactionInput carries
PatchTxn(t, input) ==
    [id |-> t.id,
     budgetId |-> IF input.budgetId # Undef THEN input.budgetId ELSE t.budgetId,
     type |-> IF input.type # Undef THEN input.type ELSE t.type,
     amount |-> IF input.amount # UndefAmount THEN input.amount ELSE t.amount]

RECURSIVE MapBudgets(_, _, _)
\* old.map(b => b.id === id ? { ...b, ...input } : b)
MapBudgets(rows, id, input) ==
    IF rows = <<>> THEN <<>>
    ELSE <<IF Head(rows).id = id THEN PatchBudget(Head(rows), input) ELSE Head(rows)>>
         \o MapBudgets(Tail(rows), id, input)

RECURSIVE MapTxns(_, _, _)
\* old.map(t => t.id === id ? { ...t, ...input } : t)
MapTxns(rows, id, input) ==
    IF rows = <<>> THEN <<>>
    ELSE <<IF Head(rows).id = id THEN PatchTxn(Head(rows), input) ELSE Head(rows)>>
         \o MapTxns(Tail(rows), id, input)

RECURSIVE FilterRows(_, _)
\* old.filter(x => x.id !== id)
FilterRows(rows, id) ==
    IF rows = <<>> THEN <<>>
    ELSE (IF Head(rows).id # id THEN <<Head(rows)>> ELSE <<>>)
         \o FilterRows(Tail(rows), id)

\* 'temp-' + Date.now(): budgets have string ids, transactions are numbered
\* here, so the temporary transaction ids are the negative numbers
TempBudgetId(n) == <<"temp-1", "temp-2", "temp-3", "temp-4">>[n]
TempTxnId(n) == 0 - n
IsTemp(id) == id \in {"temp-1", "temp-2", "temp-3", "temp-4"}

\* onMutate: the speculative collection, from the cached rows (old || [])
Optimistic(m, rows, n) ==
    CASE m.kind = "createBudget" ->
            <<[id |-> TempBudgetId(n), amount |-> m.input.amount, spent |-> 0]>> \o rows
      [] m.kind = "updateBudget" -> MapBudgets(rows, m.budget, m.input)
      [] m.kind = "deleteBudget" -> FilterRows(rows, m.budget)
      [] m.kind = "createTransaction" ->
            <<[id |-> TempTxnId(n), budgetId |-> m.input.budgetId,
               type |-> m.input.type, amount |-> m.input.amount]>> \o rows
      [] m.kind = "updateTransaction" -> MapTxns(rows, m.txn, m.input)
      [] m.kind = "deleteTransaction" -> FilterRows(rows, m.txn)

\* onError: if (context?.previousX) setQueryData(queryKey, context.previousX)
RolledBackNever(q, ctx) == q
RolledBack(q, ctx) == IF ctx.has THEN SetQueryData(q, ctx.rows) ELSE q

\* onSettled: the keys handed to invalidateQueries
SettledKeysOwnOnly(kind, key) == {key}
SettledKeys(kind, key) == IF kind \in TxKinds THEN {key, "budgets"} ELSE {key}

\* useSupabaseRealtime: the keys of the hooks subscribed to a table
SubscribedKeys(table) ==
    IF table = "budgets" THEN {"budgets"} ELSE DOMAIN cache \ {"budgets"}

InvalidateNone(c, keys) == c
InvalidateAll(c, keys) == [k \in DOMAIN c |-> IF k \in keys THEN Invalidated(c[k]) ELSE c[k]]

\* ---- the dialogs
\* what the amount field (input type="number") can hold: the empty string,
\* which is also what it holds after anything that is not a number was
\* typed, or the digits of a number; a string is the sequence of its
\* characters
FieldValues ==
    {<<>>, <<"-", "5">>, <<"-", "0", ".", "0", "1">>, <<"0">>,
     <<"1", "2", "0">>, <<"1", "2", "0", ".", "5">>}

DigitChars == <<"0", "1", "2", "3", "4", "5", "6", "7", "8", "9">>
IsDigit(c) == \E d \in 1..10 : DigitChars[d] = c
DigitValue(c) == (CHOOSE d \in 1..10 : DigitChars[d] = c) - 1

RECURSIVE DigitPrefix(_)
\* the longest prefix of str that consists of digits
DigitPrefix(str) ==
    IF str = <<>> \/ ~IsDigit(Head(str)) THEN <<>>
    ELSE <<Head(str)>> \o DigitPrefix(Tail(str))

RECURSIVE DigitsToNat(_)
DigitsToNat(ds) ==
    IF ds = <<>> THEN 0
    ELSE DigitsToNat(SubSeq(ds, 1, Len(ds) - 1)) * 10 + DigitValue(ds[Len(ds)])

\* parseFloat, for strings without exponent: an optional sign, digits, an
\* optional fraction; what follows is ignored; NaN when there is no digit.
\* The value is kept in cents (the fields step by 0.01).
ParseFloat(str) ==
    LET signed == str # <<>> /\ Head(str) \in {"-", "+"}
        body == IF signed THEN Tail(str) ELSE str
        int == DigitPrefix(body)
        rest == SubSeq(body, Len(int) + 1, Len(body))
        frac == IF rest # <<>> /\ Head(rest) = "." THEN DigitPrefix(Tail(rest)) ELSE <<>>
        frac2 == SubSeq(frac \o <<"0", "0">>, 1, 2)
        cents == DigitsToNat(int) * 100 + DigitsToNat(frac2)
    IN  IF int = <<>> /\ frac = <<>>
        THEN [nan |-> TRUE, cents |-> 0]
        ELSE [nan |-> FALSE,
              cents |-> IF signed /\ Head(str) = "-" THEN 0 - cents ELSE cents]

\* if (isNaN(parsedAmount) || parsedAmount < 0) throw ...
InvalidAmountNaNOnly(parsed) == parsed.nan
InvalidAmount(parsed) == parsed.nan \/ parsed.cents < 0

ValidAmountError == "Please enter a valid amount"
NoForm == [dialog |-> "none", raw |-> <<>>, pending |-> FALSE, error |-> "none"]

NoMut == [pc |-> "idle", kind |-> "none", key |-> "none", budget |-> Null, txn |-> 0,
          input |-> [amount |-> UndefAmount], ctx |-> Undefined, pre |-> Undefined,
          ok |-> TRUE]

\* the queries are mounted by a signed-in user and fetch for the first time
InitCache ==
    /\ cache = [k \in Keys |-> [data |-> Undefined, invalidated |-> FALSE,
                                fetching |-> TRUE, resp |-> NoResp]]
    /\ muts = [m \in Muts |-> NoMut]
    /\ events = {}
    /\ freeIds = {}
    /\ nmuts = 0
    /\ nexternal = 0
    /\ form = NoForm
    /\ InitAuthVars

\* ------------------------------------------------------------------ Init
\* the row counts towards the spent of budget b
Contributes(row, b) == row # NoRow /\ row.type = "expense" /\ row.budgetId = b

RECURSIVE SumUpTo(_, _)
SumUpTo(b, n) ==
    IF n = 0 THEN 0
    ELSE SumUpTo(b, n - 1) + (IF Contributes(txns[n], b) THEN txns[n].amount ELSE 0)
\* the sum of the amounts of the expense transactions that reference budget b
SumLinked(b) == SumUpTo(b, MaxTxns)

\* spent minus the sum of the linked expenses, for every budget
Drift == [b \in BudgetIds |->
             IF budgets[b] = NoRow THEN 0 ELSE budgets[b].spent - SumLinked(b)]
NoDrift == [b \in BudgetIds |-> 0]

\* two budgets of 500.00 each, created with spent: 0, and no transaction yet
InitBudgets == [b \in BudgetIds |-> [amount |-> 50000, spent |-> 0]]

Init ==
    /\ budgets = InitBudgets
    /\ txns = [t \in TxnIds |-> NoRow]
    /\ nextId = 1
    /\ pc = [p \in Procs |-> "idle"]
    /\ call = [p \in Procs |-> NoCall]
    /\ old = [p \in Procs |-> NoRow]
    /\ data = [p \in Procs |-> NoRow]
    /\ adj = [p \in Procs |-> <<>>]
    /\ rd = [p \in Procs |-> NoRow]
    /\ ret = [p \in Procs |-> "none"]
    /\ ncalls = 0
    /\ failed = [p \in Procs |-> FALSE]
    /\ solo = [p \in Procs |-> TRUE]
    /\ before = [p \in Procs |-> InitBudgets]
    /\ drift = [p \in Procs |-> NoDrift]
    /\ touched = [p \in Procs |-> {}]
    /\ nfaults = 0
    /\ nraces = 0
    /\ scen = "start"
    /\ InitCache

\* ------------------------------------------------------------- callers
InFlight(q) == pc[q] # "idle"
\* the call of caller q has ended and its result has not been picked up yet
Done(q) == pc[q] = "idle" /\ ret[q] # "none"
OthersIdle(p) == \A q \in Procs \ {p} : ~InFlight(q)
\* callers are interchangeable: a new call takes the first free one
FirstIdle(p) == p = "p1" \/ pc["p1"] # "idle"
\* inserts that callers have started and the store has not answered yet
PendingInserts == Cardinality({q \in Procs : pc[q] = "insert"})

\* the scenario: create T1 (expense, 120.00, budget B), update T1's amount
\* to 80.00, delete T1, one call after the other and nothing else
ScenCall(p, name, id) ==
    IF ~OthersIdle(p) THEN "off"
    ELSE IF scen = "start" /\ ncalls = 0 /\ name = "create" THEN "create"
    ELSE IF scen = "created" /\ name = "update" /\ id = 1 THEN "update"
    ELSE IF scen = "updated" /\ name = "delete" /\ id = 1 THEN "deleting"
    ELSE "off"
ScenInput(input) ==
    IF scen = "create" /\ input = [budgetId |-> "B", type |-> "expense", amount |-> 12000]
    THEN "creating"
    ELSE IF scen = "update"
            /\ input = [budgetId |-> Undef, type |-> Undef, amount |-> 8000]
         THEN "updating"
    ELSE "off"
ScenDone(s) ==
    CASE s = "creating" -> "created"
      [] s = "updating" -> "updated"
      [] s = "deleting" -> "deleted"
      [] OTHER -> "off"

\* what a finished call leaves behind is dropped when the next call starts
Fresh(f, p, mine, blank) ==
    [q \in Procs |-> IF q = p THEN mine ELSE IF InFlight(q) THEN f[q] ELSE blank]

\* a caller invokes a repository method
Begin(p, name, id, first) ==
    /\ pc[p] = "idle"
    /\ UNCHANGED hookVars
    /\ FirstIdle(p)
    /\ ncalls < MaxCalls
    /\ OthersIdle(p) \/ nraces < MaxRaces
    /\ pc' = [pc EXCEPT ![p] = first]
    /\ call' = Fresh(call, p, [name |-> name, id |-> id], NoCall)
    /\ old' = Fresh(old, p, NoRow, NoRow)
    /\ data' = Fresh(data, p, NoRow, NoRow)
    /\ ret' = Fresh(ret, p, "none", "none")
    /\ failed' = Fresh(failed, p, FALSE, FALSE)
    /\ touched' = Fresh(touched, p, {}, {})
    /\ solo' = [q \in Procs |-> IF q = p THEN OthersIdle(p) ELSE FALSE]
    /\ before' = [q \in Procs |-> IF q = p /\ OthersIdle(p) THEN budgets ELSE InitBudgets]
    /\ drift' = [q \in Procs |-> IF q = p /\ OthersIdle(p) THEN Drift ELSE NoDrift]
    /\ ncalls' = ncalls + 1
    /\ nraces' = IF OthersIdle(p) THEN nraces ELSE nraces + 1
    /\ scen' = ScenCall(p, name, id)
    /\ UNCHANGED <<budgets, txns, nextId, adj, rd, nfaults>>

CallCreate(p) ==
    /\ nextId + PendingInserts <= MaxTxns
    /\ Begin(p, "create", 0, "insert")

CallUpdate(p) ==
    \E id \in TxnIds : Begin(p, "update", id, "getById")

CallDelete(p) ==
    \E id \in TxnIds : Begin(p, "delete", id, "getById")

CallDeleteBudget(p) ==
    Begin(p, "deleteBudget", 0, "deleteBudget")

CallGetBudget(p) ==
    \E b \in BudgetIds : Begin(p, "getBudget", b, "getBudgetById")

\* a persistence step may fail on the way (network, timeout)
Faults == IF nfaults < MaxFaults THEN BOOLEAN ELSE {FALSE}

\* the call throws: the caller gets the error, nothing is undone
ThrowSwallowed(p, fail) ==
    /\ pc' = [pc EXCEPT ![p] = "idle"]
    /\ ret' = [ret EXCEPT ![p] = "ok"]
    /\ failed' = [failed EXCEPT ![p] = TRUE]
    /\ nfaults' = IF fail THEN nfaults + 1 ELSE nfaults
    /\ scen' = "off"
Throw(p, fail) ==
    /\ pc' = [pc EXCEPT ![p] = "idle"]
    /\ ret' = [ret EXCEPT ![p] = "error"]
    /\ failed' = [failed EXCEPT ![p] = TRUE]
    /\ nfaults' = IF fail THEN nfaults + 1 ELSE nfaults
    /\ scen' = "off"

\* after the row write: run the updateBudgetSpent calls, or return
Continue(p, todo, bad, sc) ==
    /\ adj' = [adj EXCEPT ![p] = todo]
    /\ IF todo = <<>>
       THEN /\ pc' = [pc EXCEPT ![p] = "idle"]
            /\ ret' = [ret EXCEPT ![p] = "ok"]
            /\ scen' = IF bad THEN "off" ELSE ScenDone(sc)
       ELSE /\ pc' = [pc EXCEPT ![p] = "ubsRead"]
            /\ ret' = ret
            /\ scen' = IF bad THEN "off" ELSE sc

\* create: insert(...).select().single()
Insert(p) ==
    /\ pc[p] = "insert"
    /\ UNCHANGED hookVars
    /\ \E input \in CreateInputs, fail \in Faults :
        IF fail \/ ~FkOk(input.budgetId)
        THEN /\ Throw(p, fail)
             /\ UNCHANGED <<budgets, txns, nextId, call, old, data, adj, rd, ncalls,
                            solo, before, drift, touched, nraces>>
        ELSE /\ txns' = [txns EXCEPT ![nextId] = InsertRow(input)]
             /\ nextId' = nextId + 1
             /\ data' = [data EXCEPT ![p] = InsertRow(input)]
             /\ Continue(p, CreateAdj(input), FALSE, ScenInput(input))
             /\ UNCHANGED <<budgets, call, old, rd, ncalls, failed, solo, before, drift,
                            touched, nfaults, nraces>>

\* select('*').eq('id', id).single(): the answer of the store; no row is
\* the error PGRST116, a failure on the way is some other error
SingleResponse(row, fail) ==
    IF fail THEN [data |-> NoRow, error |-> "other"]
    ELSE IF row = NoRow THEN [data |-> NoRow, error |-> "PGRST116"]
    ELSE [data |-> row, error |-> "none"]

\* SupabaseTransactionRepository.getById: what it makes of the answer
GetByIdThrowsNotFound(resp) ==
    IF resp.error # "none"
    THEN [throws |-> TRUE, value |-> NoRow]
    ELSE [throws |-> FALSE, value |-> resp.data]
GetByIdResult(resp) ==
    IF resp.error # "none"
    THEN IF resp.error = "PGRST116"
         THEN [throws |-> FALSE, value |-> NoRow]
         ELSE [throws |-> TRUE, value |-> NoRow]
    ELSE [throws |-> FALSE, value |-> resp.data]

\* SupabaseBudgetRepository.getById: the same shape
BudgetGetByIdResult(resp) ==
    IF resp.error # "none"
    THEN IF resp.error = "PGRST116"
         THEN [throws |-> FALSE, value |-> NoRow]
         ELSE [throws |-> TRUE, value |-> NoRow]
    ELSE [throws |-> FALSE, value |-> resp.data]

\* getById of the transaction, the first step of update and delete
GetById(p) ==
    /\ pc[p] = "getById"
    /\ UNCHANGED hookVars
    /\ \E fail \in Faults :
        IF GetByIdResult(SingleResponse(txns[call[p].id], fail)).throws
        THEN /\ Throw(p, fail)
             /\ UNCHANGED <<budgets, txns, nextId, call, old, data, adj, rd, ncalls,
                            solo, before, drift, touched, nraces>>
        ELSE /\ old' = [old EXCEPT ![p] =
                            GetByIdResult(SingleResponse(txns[call[p].id], fail)).value]
             /\ nfaults' = IF fail THEN nfaults + 1 ELSE nfaults
             /\ failed' = [failed EXCEPT ![p] = failed[p] \/ fail]
             /\ pc' = [pc EXCEPT ![p] = "write"]
             /\ UNCHANGED <<budgets, txns, nextId, call, data, adj, rd, ret, ncalls,
                            solo, before, drift, touched, nraces, scen>>

\* SupabaseBudgetRepository.getById as a call of its own
GetBudgetById(p) ==
    /\ pc[p] = "getBudgetById"
    /\ UNCHANGED hookVars
    /\ \E fail \in Faults :
        LET result == BudgetGetByIdResult(SingleResponse(budgets[call[p].id], fail))
        IN  /\ IF result.throws
               THEN Throw(p, fail)
               ELSE /\ pc' = [pc EXCEPT ![p] = "idle"]
                    /\ ret' = [ret EXCEPT ![p] =
                                   IF result.value = NoRow THEN "null" ELSE "ok"]
                    /\ failed' = [failed EXCEPT ![p] = failed[p] \/ fail]
                    /\ nfaults' = IF fail THEN nfaults + 1 ELSE nfaults
                    /\ scen' = "off"
            /\ UNCHANGED <<budgets, txns, nextId, call, old, data, adj, rd, ncalls,
                           solo, before, drift, touched, nraces>>

\* update: update(updateData).eq('id', id).select().single()
WriteUpdate(p) ==
    /\ pc[p] = "write"
    /\ UNCHANGED hookVars
    /\ call[p].name = "update"
    /\ \E input \in UpdateInputs, fail \in Faults :
        LET id == call[p].id
        IN  IF fail \/ txns[id] = NoRow \/ ~FkOk(UpdateRow(txns[id], input).budgetId)
            THEN /\ Throw(p, fail)
                 /\ UNCHANGED <<budgets, txns, nextId, call, old, data, adj, rd,
                                ncalls, solo, before, drift, touched, nraces>>
            ELSE /\ txns' = [txns EXCEPT ![id] = UpdateRow(txns[id], input)]
                 /\ data' = [data EXCEPT ![p] = UpdateRow(txns[id], input)]
                 /\ Continue(p, UpdateAdj(old[p], UpdateRow(txns[id], input)), FALSE,
                             ScenInput(input))
                 /\ UNCHANGED <<budgets, nextId, call, old, rd, ncalls, failed,
                                solo, before, drift, touched, nfaults, nraces>>

\* delete: delete().eq('id', id)
WriteDelete(p) ==
    /\ pc[p] = "write"
    /\ UNCHANGED hookVars
    /\ call[p].name = "delete"
    /\ \E fail \in Faults :
        IF fail
        THEN /\ Throw(p, fail)
             /\ UNCHANGED <<budgets, txns, nextId, call, old, data, adj, rd, ncalls,
                            solo, before, drift, touched, nraces>>
        ELSE /\ txns' = [txns EXCEPT ![call[p].id] = NoRow]
             /\ Continue(p, DeleteAdj(old[p]), FALSE, scen)
             /\ UNCHANGED <<budgets, nextId, call, old, data, rd, ncalls, failed,
                            solo, before, drift, touched, nfaults, nraces>>

\* updateBudgetSpent, first await: select('spent').eq('id', budgetId).single();
\* the error of the read is dropped, an unread budget is skipped
UbsRead(p) ==
    /\ pc[p] = "ubsRead"
    /\ UNCHANGED hookVars
    /\ \E fail \in Faults :
        LET budget == IF fail THEN NoRow ELSE budgets[Head(adj[p]).budgetId]
        IN  /\ failed' = [failed EXCEPT ![p] = failed[p] \/ fail]
            /\ nfaults' = IF fail THEN nfaults + 1 ELSE nfaults
            /\ IF budget = NoRow
               THEN /\ Continue(p, Tail(adj[p]), failed[p] \/ fail, scen)
                    /\ rd' = rd
               ELSE /\ rd' = [rd EXCEPT ![p] = budget]
                    /\ pc' = [pc EXCEPT ![p] = "ubsWrite"]
                    /\ scen' = IF fail THEN "off" ELSE scen
                    /\ UNCHANGED <<adj, ret>>
            /\ UNCHANGED <<budgets, txns, nextId, call, old, data, ncalls, solo,
                           before, drift, touched, nraces>>

\* updateBudgetSpent, second await: update({ spent: Math.max(0, newSpent) });
\* the result of the write is not looked at
UbsWrite(p) ==
    /\ pc[p] = "ubsWrite"
    /\ UNCHANGED hookVars
    /\ \E fail \in Faults :
        LET a == Head(adj[p])
            b == a.budgetId
            lands == ~fail /\ budgets[b] # NoRow
        IN  /\ budgets' = IF lands
                          THEN [budgets EXCEPT ![b].spent =
                                    NewSpent(rd[p].spent, a.amount, a.operation)]
                          ELSE budgets
            /\ touched' = IF lands THEN [touched EXCEPT ![p] = @ \cup {b}] ELSE touched
            /\ failed' = [failed EXCEPT ![p] = failed[p] \/ fail]
            /\ nfaults' = IF fail THEN nfaults + 1 ELSE nfaults
            /\ rd' = [rd EXCEPT ![p] = NoRow]
            /\ Continue(p, Tail(adj[p]), failed[p] \/ fail, scen)
            /\ UNCHANGED <<txns, nextId, call, old, data, ncalls, solo, before, drift, nraces>>

\* SupabaseBudgetRepository.delete: delete().eq('id', budgetId)
DeleteBudget(p) ==
    /\ pc[p] = "deleteBudget"
    /\ UNCHANGED hookVars
    /\ \E b \in BudgetIds, fail \in Faults :
        IF fail
        THEN /\ Throw(p, fail)
             /\ UNCHANGED <<budgets, txns, nextId, call, old, data, adj, rd, ncalls,
                            solo, before, drift, touched, nraces>>
        ELSE /\ budgets' = [budgets EXCEPT ![b] = NoRow]
             /\ txns' = SetNullOnDelete(b)
             /\ pc' = [pc EXCEPT ![p] = "idle"]
             /\ ret' = [ret EXCEPT ![p] = "ok"]
             /\ scen' = "off"
             /\ UNCHANGED <<nextId, call, old, data, adj, rd, ncalls, failed, solo,
                            before, drift, touched, nfaults, nraces>>

Next ==
    \E p \in Procs :
        \/ CallCreate(p)
        \/ CallUpdate(p)
        \/ CallDelete(p)
        \/ CallDeleteBudget(p)
        \/ CallGetBudget(p)
        \/ Insert(p)
        \/ GetById(p)
        \/ GetBudgetById(p)
        \/ WriteUpdate(p)
        \/ WriteDelete(p)
        \/ UbsRead(p)
        \/ UbsWrite(p)
        \/ DeleteBudget(p)

Spec == Init /\ [][Next]_vars

\* ------------------------------------------------- hooks: the mutations
\* the variables the forms hand to the mutations in this model
HookBudgetInputs == [amount : {60000}]
HookCreateInputs ==
    {i \in CreateInputs : i.type = "expense" /\ i.amount = 12000 /\ i.budgetId \in {"A", Undef}}
HookUpdateInputs ==
    {i \in UpdateInputs : /\ i.type = Undef
                          /\ \/ i.budgetId = Undef /\ i.amount = 12000
                             \/ i.budgetId = Null /\ i.amount = UndefAmount}

\* updateBudgetSpent for a budget that exists, in one piece
ApplyAdj(tb, a) ==
    IF tb[a.budgetId] # NoRow
    THEN [tb EXCEPT ![a.budgetId].spent = NewSpent(@, a.amount, a.operation)]
    ELSE tb
RECURSIVE ApplyAdjs(_, _)
ApplyAdjs(tb, todo) ==
    IF todo = <<>> THEN tb ELSE ApplyAdjs(ApplyAdj(tb, Head(todo)), Tail(todo))

\* the repository call of a mutation (mutationFn), run as a whole with no
\* failure on the way: whether the store accepts it, and the tables after it
WriteOk(w) ==
    CASE w.kind = "createBudget" -> freeIds # {}
      [] w.kind = "updateBudget" -> budgets[w.budget] # NoRow
      [] w.kind = "deleteBudget" -> TRUE
      [] w.kind = "createTransaction" -> nextId <= MaxTxns /\ FkOk(w.input.budgetId)
      [] w.kind = "updateTransaction" ->
            /\ txns[w.txn] # NoRow
            /\ FkOk(UpdateRow(txns[w.txn], w.input).budgetId)
      [] w.kind = "deleteTransaction" -> TRUE

NewBudgetId == CHOOSE b \in freeIds : TRUE

BudgetsAfter(w) ==
    CASE w.kind = "createBudget" ->
            [budgets EXCEPT ![NewBudgetId] = [amount |-> w.input.amount, spent |-> 0]]
      [] w.kind = "updateBudget" -> [budgets EXCEPT ![w.budget].amount = w.input.amount]
      [] w.kind = "deleteBudget" -> [budgets EXCEPT ![w.budget] = NoRow]
      [] w.kind = "createTransaction" -> ApplyAdjs(budgets, CreateAdj(w.input))
      [] w.kind = "updateTransaction" ->
            ApplyAdjs(budgets, UpdateAdj(txns[w.txn], UpdateRow(txns[w.txn], w.input)))
      [] w.kind = "deleteTransaction" -> ApplyAdjs(budgets, DeleteAdj(txns[w.txn]))

TxnsAfter(w) ==
    CASE w.kind = "deleteBudget" -> SetNullOnDelete(w.budget)
      [] w.kind = "createTransaction" -> [txns EXCEPT ![nextId] = InsertRow(w.input)]
      [] w.kind = "updateTransaction" ->
            [txns EXCEPT ![w.txn] = UpdateRow(txns[w.txn], w.input)]
      [] w.kind = "deleteTransaction" -> [txns EXCEPT ![w.txn] = NoRow]
      [] OTHER -> txns

\* postgres_changes: one event for every row a write has changed
ChangeEvents(tb, tx) ==
    {[table |-> "budgets", budget |-> b, txn |-> 0] : b \in {x \in BudgetIds : tb[x] # budgets[x]}}
    \cup {[table |-> "transactions", budget |-> Null, txn |-> t] :
             t \in {x \in TxnIds : tx[x] # txns[x]}}

\* the store takes the write w and publishes the changes
StoreWrite(w) ==
    /\ budgets' = BudgetsAfter(w)
    /\ txns' = TxnsAfter(w)
    /\ nextId' = IF w.kind = "createTransaction" THEN nextId + 1 ELSE nextId
    /\ freeIds' = IF w.kind = "createBudget" THEN freeIds \ {NewBudgetId} ELSE freeIds
    /\ events' = events \cup ChangeEvents(BudgetsAfter(w), TxnsAfter(w))

\* the writes a form can ask for through the hook of a key
Writes(key) ==
    IF key = "budgets"
    THEN [kind : {"createBudget"}, budget : {Null}, txn : {0}, input : HookBudgetInputs]
         \cup [kind : {"updateBudget"}, budget : BudgetIds, txn : {0}, input : HookBudgetInputs]
         \cup [kind : {"deleteBudget"}, budget : BudgetIds, txn : {0}, input : {[amount |-> UndefAmount]}]
    ELSE [kind : {"createTransaction"}, budget : {Null}, txn : {0}, input : HookCreateInputs]
         \cup [kind : {"updateTransaction"}, budget : {Null}, txn : TxnIds, input : HookUpdateInputs]
         \cup [kind : {"deleteTransaction"}, budget : {Null}, txn : TxnIds, input : {[amount |-> UndefAmount]}]

\* the form action gets the outcome of the mutation it awaited: on success
\* the fields are reset and the dialog closes, on failure the message of
\* the error is shown
FormSettled(ok) ==
    IF ~form.pending THEN form
    ELSE IF ok THEN NoForm
    ELSE [form EXCEPT !.pending = FALSE, !.error = "failed"]

\* a mutation that has settled: its variables and context are gone
Settled(mu) == [NoMut EXCEPT !.pc = "settled", !.kind = mu.kind, !.key = mu.key,
                             !.ok = mu.ok]

\* onError has run and onSettled is next, in the same turn of the event loop
Busy == \E m \in DOMAIN muts : muts[m].pc = "rejected"
FreeSlot(m) == muts[m].pc \in {"idle", "settled"}
FirstFree(m) == \A x \in 1..(m - 1) : ~FreeSlot(x)

\* mutateAsync: onMutate cancels the fetch of its key, snapshots the cached
\* collection and puts the speculative collection in its place; then
\* mutationFn is under way
Issue(m, key, w) ==
    /\ ~Busy
    /\ FreeSlot(m) /\ FirstFree(m)
    /\ LET q == Cancelled(cache[key])
           previous == q.data
       IN  /\ cache' = [cache EXCEPT ![key] =
                           SetQueryData(q, Optimistic(w, previous.rows, nmuts + 1))]
           /\ muts' = [muts EXCEPT ![m] =
                           [pc |-> "pending", kind |-> w.kind, key |-> key,
                            budget |-> w.budget, txn |-> w.txn, input |-> w.input,
                            ctx |-> previous, pre |-> cache[key].data, ok |-> TRUE]]
    /\ nmuts' = nmuts + 1
    /\ UNCHANGED <<storeVars, callVars, authVars, events, freeIds, nexternal>>

\* a mutation issued by a caller of the hook, with variables as they come
Mutate(m) ==
    /\ nmuts < MaxMutations
    /\ \E key \in Keys : \E w \in Writes(key) : Issue(m, key, w)
    /\ UNCHANGED form

\* mutationFn reaches the store: the write is applied or refused
ServerWrite(m) ==
    /\ ~Busy
    /\ muts[m].pc = "pending"
    /\ IF WriteOk(muts[m])
       THEN /\ StoreWrite(muts[m])
            /\ muts' = [muts EXCEPT ![m].pc = "written"]
       ELSE /\ muts' = [muts EXCEPT ![m].pc = "written", ![m].ok = FALSE]
            /\ UNCHANGED <<storeVars, events, freeIds>>
    /\ UNCHANGED <<callVars, authVars, form, cache, nmuts, nexternal>>

\* mutationFn fails before the store is reached (network, time-out)
NetworkError(m) ==
    /\ ~Busy
    /\ muts[m].pc = "pending"
    /\ muts' = [muts EXCEPT ![m].pc = "written", ![m].ok = FALSE]
    /\ UNCHANGED <<storeVars, callVars, authVars, form, cache, events, freeIds, nmuts, nexternal>>

\* mutationFn resolved: onSettled
MutationSucceeds(m) ==
    /\ ~Busy
    /\ muts[m].pc = "written" /\ muts[m].ok
    /\ cache' = InvalidateAll(cache, SettledKeys(muts[m].kind, muts[m].key))
    /\ muts' = [muts EXCEPT ![m] = Settled(@)]
    /\ form' = FormSettled(muts[m].ok)
    /\ UNCHANGED <<storeVars, callVars, authVars, events, freeIds, nmuts, nexternal>>

\* mutationFn rejected: onError
MutationFails(m) ==
    /\ ~Busy
    /\ muts[m].pc = "written" /\ ~muts[m].ok
    /\ cache' = [cache EXCEPT ![muts[m].key] = RolledBack(@, muts[m].ctx)]
    /\ muts' = [muts EXCEPT ![m].pc = "rejected"]
    /\ UNCHANGED <<storeVars, callVars, authVars, form, events, freeIds, nmuts, nexternal>>

\* ... and onSettled right after onError
SettledAfterError(m) ==
    /\ muts[m].pc = "rejected"
    /\ cache' = InvalidateAll(cache, SettledKeys(muts[m].kind, muts[m].key))
    /\ muts' = [muts EXCEPT ![m] = Settled(@)]
    /\ form' = FormSettled(muts[m].ok)
    /\ UNCHANGED <<storeVars, callVars, authVars, events, freeIds, nmuts, nexternal>>

\* ---------------------------------------------- hooks: fetch and events
\* queryFn reads the collection of the key from the store
FetchRead(k) ==
    /\ ~Busy
    /\ cache[k].fetching /\ ~cache[k].resp.has
    /\ cache' = [cache EXCEPT ![k].resp = Some(QueryFn(k))]
    /\ UNCHANGED <<storeVars, callVars, authVars, form, muts, events, freeIds, nmuts, nexternal>>

\* the answer of queryFn arrives and replaces the cached collection
FetchDone(k) ==
    /\ ~Busy
    /\ cache[k].resp.has
    /\ cache' = [cache EXCEPT ![k] = Fetched(@)]
    /\ UNCHANGED <<storeVars, callVars, authVars, form, muts, events, freeIds, nmuts, nexternal>>

\* queryFn throws (getAll: if (error) throw error) and the query gives up:
\* the data stay as they are and count as stale, no fetch is under way
Failed(q) == [q EXCEPT !.invalidated = TRUE, !.fetching = FALSE, !.resp = NoResp]

FetchFails(k) ==
    /\ ~Busy
    /\ cache[k].fetching /\ ~cache[k].resp.has
    /\ nfaults < MaxFaults
    /\ nfaults' = nfaults + 1
    /\ cache' = [cache EXCEPT ![k] = Failed(@)]
    /\ UNCHANGED <<storeVars, authVars, form, muts, events, freeIds, nmuts, nexternal>>
    /\ UNCHANGED <<pc, call, old, data, adj, rd, ret, ncalls, failed, solo, before,
                   touched, drift, nraces, scen>>

\* a write made elsewhere (another tab or device of the user)
ExternalChange ==
    /\ ~Busy
    /\ nexternal < MaxExternal
    /\ \E key \in {"budgets", "tx-all"} : \E w \in Writes(key) :
        /\ WriteOk(w)
        /\ StoreWrite(w)
    /\ nexternal' = nexternal + 1
    /\ UNCHANGED <<callVars, authVars, form, cache, muts, nmuts>>

\* useSupabaseRealtime: the callback of the channel; the payload is not used
RealtimeChange(e) ==
    /\ ~Busy
    /\ e \in events
    /\ events' = events \ {e}
    /\ cache' = InvalidateAll(cache, SubscribedKeys(e.table))
    /\ UNCHANGED <<storeVars, callVars, authVars, form, muts, freeIds, nmuts, nexternal>>

NextHooks ==
    \/ \E m \in Muts :
        \/ Mutate(m)
        \/ ServerWrite(m)
        \/ NetworkError(m)
        \/ MutationSucceeds(m)
        \/ MutationFails(m)
        \/ SettledAfterError(m)
    \/ \E k \in Keys :
        \/ FetchRead(k)
        \/ FetchDone(k)
        \/ FetchFails(k)
    \/ ExternalChange
    \/ \E e \in events : RealtimeChange(e)

\* the store the hooks start on: budget A with one expense of 80.00; the
\* queries of the keys are mounted, the mutations have the given slots
InitHooksWith(slots, keys) ==
    /\ budgets = [b \in BudgetIds |->
                     IF b = "A" THEN [amount |-> 50000, spent |-> 8000] ELSE NoRow]
    /\ txns = [t \in TxnIds |->
                  IF t = 1 THEN [budgetId |-> "A", type |-> "expense", amount |-> 8000]
                  ELSE NoRow]
    /\ nextId = 2
    /\ pc = [p \in Procs |-> "idle"]
    /\ call = [p \in Procs |-> NoCall]
    /\ old = [p \in Procs |-> NoRow]
    /\ data = [p \in Procs |-> NoRow]
    /\ adj = [p \in Procs |-> <<>>]
    /\ rd = [p \in Procs |-> NoRow]
    /\ ret = [p \in Procs |-> "none"]
    /\ ncalls = 0
    /\ failed = [p \in Procs |-> FALSE]
    /\ solo = [p \in Procs |-> TRUE]
    /\ before = [p \in Procs |-> InitBudgets]
    /\ drift = [p \in Procs |-> NoDrift]
    /\ touched = [p \in Procs |-> {}]
    /\ nfaults = 0
    /\ nraces = 0
    /\ scen = "off"
    /\ cache = [k \in keys |-> [data |-> Undefined, invalidated |-> FALSE,
                                fetching |-> TRUE, resp |-> NoResp]]
    /\ muts = [m \in slots |-> NoMut]
    /\ events = {}
    /\ freeIds = {"B"}
    /\ nmuts = 0
    /\ nexternal = 0
    /\ form = NoForm
    /\ InitAuthVars

InitHooks == InitHooksWith(Muts, Keys)

SpecHooks == InitHooks /\ [][NextHooks]_vars

\* ---------------------------------------- hooks: overlapping mutations
\* mutations issued in quick succession, before the earlier ones settled
OverlapMuts == 1..MaxOverlap

\* what is issued in quick succession: the amount of the first expense is
\* edited, then budgets are created
OverlapWrites(key) ==
    {w \in Writes(key) :
        \/ w.kind = "createBudget"
        \/ /\ w.kind = "updateTransaction" /\ w.txn = 1 /\ w.input.budgetId = Undef
           /\ nmuts = 0}

MutateOverlapping(m) ==
    /\ nmuts < MaxOverlap
    /\ \E key \in Keys : \E w \in OverlapWrites(key) : Issue(m, key, w)
    /\ UNCHANGED form

NextOverlap ==
    \/ \E m \in OverlapMuts :
        \/ MutateOverlapping(m)
        \/ ServerWrite(m)
        \/ NetworkError(m)
        \/ MutationSucceeds(m)
        \/ MutationFails(m)
        \/ SettledAfterError(m)
    \/ \E k \in Keys :
        \/ FetchRead(k)
        \/ FetchDone(k)
    \/ \E e \in events : RealtimeChange(e)

InitOverlap == InitHooksWith(OverlapMuts, Keys)

SpecOverlap == InitOverlap /\ [][NextOverlap]_vars

\* every write that is in flight is answered or fails, every promise that
\* has settled runs its callbacks, every fetch that is under way reads and
\* returns, every change event is delivered
SpecOverlapFair ==
    /\ SpecOverlap
    /\ \A m \in OverlapMuts :
        /\ WF_vars(ServerWrite(m) \/ NetworkError(m))
        /\ WF_vars(MutationSucceeds(m))
        /\ WF_vars(MutationFails(m))
        /\ WF_vars(SettledAfterError(m))
    /\ \A k \in Keys :
        /\ WF_vars(FetchRead(k))
        /\ WF_vars(FetchDone(k))
    /\ WF_vars(\E e \in events : RealtimeChange(e))

\* ------------------------------------- hooks: the list of one budget
\* the page of budget A is open: TransactionList with budgetId A is mounted
\* next to the hooks of the 'all' collection. The dialog creates an expense
\* of budget A through the 'all' collection, the list deletes a
\* transaction through the collection of the budget.
ListWrites(key) ==
    IF key = "tx-all"
    THEN {w \in Writes(key) : w.kind = "createTransaction" /\ w.input.budgetId = "A"}
    ELSE IF key = "tx-A"
    THEN {w \in Writes(key) : w.kind = "deleteTransaction"}
    ELSE {}

MutateList(m) ==
    /\ nmuts < MaxMutations
    /\ \E key \in ListKeys : \E w \in ListWrites(key) : Issue(m, key, w)
    /\ UNCHANGED form

NextLists ==
    \/ \E m \in Muts :
        \/ MutateList(m)
        \/ ServerWrite(m)
        \/ NetworkError(m)
        \/ MutationSucceeds(m)
        \/ MutationFails(m)
        \/ SettledAfterError(m)
    \/ \E k \in ListKeys :
        \/ FetchRead(k)
        \/ FetchDone(k)
    \/ \E e \in events : RealtimeChange(e)

InitLists == InitHooksWith(Muts, ListKeys)

SpecLists == InitLists /\ [][NextLists]_vars

\* ------------------------------------------------ the dialogs: submit
\* the form action throws before it calls the mutation: the message is shown
Reject(dialog, raw) ==
    /\ form' = [dialog |-> dialog, raw |-> raw, pending |-> FALSE,
                error |-> ValidAmountError]
    /\ UNCHANGED <<storeVars, callVars, authVars, cacheVars>>

\* the form action calls the mutation and awaits it
Accept(dialog, raw, key, w) ==
    /\ nmuts < MaxMutations
    /\ \E m \in Muts : Issue(m, key, w)
    /\ form' = [dialog |-> dialog, raw |-> raw, pending |-> TRUE, error |-> "none"]

\* the budgets the dashboard shows, one of which the edit dialog is opened on
ShownBudgets ==
    {b \in BudgetIds :
        \E i \in 1..Len(cache["budgets"].data.rows) :
            cache["budgets"].data.rows[i].id = b}

\* CreateTransactionDialog: the form action, for an expense
SubmitCreateTransaction ==
    /\ ~Busy /\ ~form.pending
    /\ \E raw \in FieldValues, budgetId \in {"A", Undef} :
        IF InvalidAmount(ParseFloat(raw))
        THEN Reject("createTransaction", raw)
        ELSE Accept("createTransaction", raw, "tx-all",
                    [kind |-> "createTransaction", budget |-> Null, txn |-> 0,
                     input |-> [budgetId |-> budgetId, type |-> "expense",
                                amount |-> ParseFloat(raw).cents]])

\* CreateBudgetDialog: the form action
SubmitCreateBudget ==
    /\ ~Busy /\ ~form.pending
    /\ \E raw \in FieldValues :
        IF InvalidAmount(ParseFloat(raw))
        THEN Reject("createBudget", raw)
        ELSE Accept("createBudget", raw, "budgets",
                    [kind |-> "createBudget", budget |-> Null, txn |-> 0,
                     input |-> [amount |-> ParseFloat(raw).cents]])

\* EditBudgetDialog: the form action; the dialog is open on a budget of the
\* dashboard (it is open exactly while there is one)
SubmitEditBudget ==
    /\ ~Busy /\ ~form.pending
    /\ \E raw \in FieldValues, b \in ShownBudgets :
        IF InvalidAmount(ParseFloat(raw))
        THEN Reject("editBudget", raw)
        ELSE Accept("editBudget", raw, "budgets",
                    [kind |-> "updateBudget", budget |-> b, txn |-> 0,
                     input |-> [amount |-> ParseFloat(raw).cents]])

NextForms ==
    \/ SubmitCreateTransaction
    \/ SubmitCreateBudget
    \/ SubmitEditBudget
    \/ \E m \in Muts :
        \/ ServerWrite(m)
        \/ NetworkError(m)
        \/ MutationSucceeds(m)
        \/ MutationFails(m)
        \/ SettledAfterError(m)
    \/ \E k \in Keys :
        \/ FetchRead(k)
        \/ FetchDone(k)
        \/ FetchFails(k)
    \/ \E e \in events : RealtimeChange(e)

SpecForms == InitHooks /\ [][NextForms]_vars

\* --------------------------------------------- SupabaseAuthRepository
\* signIn: what it makes of the answer of signInWithPassword
SignInResult(answer) ==
    CASE answer = "user" -> ReturnsUser("signIn")
      [] answer = "error" -> Throws("auth error")
      [] answer = "null" -> Throws("Sign in failed")
      [] answer = "throws" -> Throws("rejected")

\* getCurrentUser, catch (err): return null
CaughtRethrows(msg) == Throws(msg)
Caught(msg) == ReturnsNull

\* getCurrentUser after the race on getSession has resolved: the result, or
\* the call of getUser (result none)
AfterSessionAsksGetUser(answer) ==
    IF answer = "error" THEN ReturnsNull ELSE NoResult
AfterSession(answer) ==
    CASE answer = "error" -> ReturnsNull
      [] answer = "user" -> ReturnsUser("session")
      [] answer = "null" -> NoResult

\* getCurrentUser after the race on getUser has resolved
AfterUser(answer) ==
    IF answer = "error" \/ answer = "null" THEN ReturnsNull ELSE ReturnsUser("getUser")

Timer(name) == [name |-> name, op |-> nauth]

\* an operation ends
Ends(result) ==
    /\ apc' = "idle"
    /\ aresult' = result

\* signIn is called: signInWithPassword is under way, no timer is set
CallSignIn ==
    /\ apc = "idle"
    /\ nauth < MaxAuthCalls
    /\ \E b \in Behaviours : env' = [NoEnv EXCEPT !.signIn = b]
    /\ apc' = "signIn"
    /\ aop' = "signIn"
    /\ nauth' = nauth + 1
    /\ sess' = "none" /\ usr' = "none" /\ aresult' = NoResult
    /\ UNCHANGED <<storeVars, callVars, cacheVars, form, provVars, timers>>

\* signInWithPassword settles
SignInResponds ==
    /\ apc = "signIn"
    /\ env.signIn # "hangs"
    /\ Ends(SignInResult(env.signIn))
    /\ UNCHANGED <<storeVars, callVars, cacheVars, form, provVars, aop, env, timers, sess, usr, nauth>>

\* getCurrentUser is called: getSession races a timer of 10 s
CallGetCurrentUser ==
    /\ apc = "idle"
    /\ nauth < MaxAuthCalls
    /\ \E b1 \in Behaviours, b2 \in Behaviours :
        env' = [NoEnv EXCEPT !.getSession = b1, !.getUser = b2]
    /\ apc' = "getSession"
    /\ aop' = "getCurrentUser"
    /\ nauth' = nauth + 1
    /\ timers' = timers \cup {[name |-> "getSession", op |-> nauth + 1]}
    /\ sess' = "none" /\ usr' = "none" /\ aresult' = NoResult
    /\ UNCHANGED <<storeVars, callVars, cacheVars, form, provVars>>

\* getSession settles before its timer fires
GetSessionResponds ==
    /\ apc = "getSession"
    /\ env.getSession # "hangs"
    /\ sess' = env.getSession
    /\ IF env.getSession = "throws"
       THEN Ends(Caught("rejected")) /\ timers' = timers
       ELSE IF AfterSession(env.getSession) # NoResult
       THEN Ends(AfterSession(env.getSession)) /\ timers' = timers
       ELSE /\ apc' = "getUser"
            /\ timers' = timers \cup {Timer("getUser")}
            /\ aresult' = aresult
    /\ UNCHANGED <<storeVars, callVars, cacheVars, form, provVars, aop, env, usr, nauth>>

\* getUser settles before its timer fires
GetUserResponds ==
    /\ apc = "getUser"
    /\ env.getUser # "hangs"
    /\ usr' = env.getUser
    /\ Ends(IF env.getUser = "throws" THEN Caught("rejected") ELSE AfterUser(env.getUser))
    /\ UNCHANGED <<storeVars, callVars, cacheVars, form, provVars, aop, env, timers, sess, nauth>>

\* a timer fires: the race it is part of, if still undecided, rejects with
\* '<name> timed out after 10000ms'; a timer of a decided race has no effect
TimerFires(t) ==
    /\ t \in timers
    /\ timers' = timers \ {t}
    /\ IF t.op = nauth /\ apc = t.name
       THEN /\ Ends(Caught("timed out"))
            /\ sess' = IF t.name = "getSession" THEN "timeout" ELSE sess
            /\ usr' = IF t.name = "getUser" THEN "timeout" ELSE usr
       ELSE UNCHANGED <<apc, aresult, sess, usr>>
    /\ UNCHANGED <<storeVars, callVars, cacheVars, form, provVars, aop, env, nauth>>

NextAuth ==
    \/ CallSignIn
    \/ SignInResponds
    \/ CallGetCurrentUser
    \/ GetSessionResponds
    \/ GetUserResponds
    \/ \E t \in timers : TimerFires(t)

SpecAuth == InitHooks /\ [][NextAuth]_vars

\* the event loop runs every timer that is due, and a call of the provider
\* that is going to settle does settle
SpecAuthFair ==
    /\ SpecAuth
    /\ WF_vars(\E t \in timers : TimerFires(t))
    /\ WF_vars(SignInResponds)
    /\ WF_vars(GetSessionResponds)
    /\ WF_vars(GetUserResponds)


\* ------------------------------------------------------- AuthProvider
\* clearTimeout(timeoutId)
ClearTimeout(t) == IF t = "armed" THEN "cleared" ELSE t

\* the callback of the safety timer: setLoading(false)
TimedOutLoadingKept(l) == l
TimedOutLoading(l) == FALSE

\* React renders ProtectedRoute again with the state the step leaves
Rendered ==
    view' = IF variant' # "none" /\ ~mounted' THEN "none"
            ELSE ProtectedRoute(loading', user')

\* the effect runs: mounted = true, the safety timer is armed, initAuth() is
\* called and awaits getSession, the auth state changes are subscribed to
Mount ==
    /\ variant = "none"
    /\ variant' \in Variants
    /\ mounted' = TRUE
    /\ timeoutId' = "armed"
    /\ initAuth' = "getSession"
    /\ UNCHANGED <<loading, user, isInitialized, handlers, nevents>>
    /\ Rendered
    /\ UNCHANGED <<storeVars, callVars, cacheVars, form,
                   apc, aop, env, timers, sess, usr, aresult, nauth>>

\* if (mounted) { setUser(u); setLoading(false); isInitialized = true;
\*                clearTimeout(timeoutId) }
Initialized(u, clears) ==
    IF mounted
    THEN /\ user' = u
         /\ loading' = FALSE
         /\ isInitialized' = (variant = "part_002")
         /\ timeoutId' = IF clears THEN ClearTimeout(timeoutId) ELSE timeoutId
    ELSE UNCHANGED <<user, loading, isInitialized, timeoutId>>

\* initAuth: supabase.auth.getSession() answers with a session, with none,
\* or rejects; it may also never answer, and then this step never happens
AuthInitSession ==
    /\ initAuth = "getSession"
    /\ \E answer \in {"user", "null", "throws"} :
        IF answer = "user"
        THEN /\ initAuth' = "getCurrentUser"
             /\ UNCHANGED <<user, loading, isInitialized, timeoutId>>
        ELSE /\ initAuth' = "done"
             /\ Initialized(Null, TRUE)
    /\ UNCHANGED <<variant, mounted, handlers, nevents>>
    /\ Rendered
    /\ UNCHANGED <<storeVars, callVars, cacheVars, form,
                   apc, aop, env, timers, sess, usr, aresult, nauth>>

\* initAuth: authRepository.getCurrentUser() returns a user or null
AuthInitCurrentUser ==
    /\ initAuth = "getCurrentUser"
    /\ initAuth' = "done"
    /\ \E u \in {"user", Null} : Initialized(u, TRUE)
    /\ UNCHANGED <<variant, mounted, handlers, nevents>>
    /\ Rendered
    /\ UNCHANGED <<storeVars, callVars, cacheVars, form,
                   apc, aop, env, timers, sess, usr, aresult, nauth>>

\* onAuthStateChange: the callback is called with a session or without
AuthStateChange ==
    /\ mounted
    /\ nevents < MaxAuthEvents
    /\ nevents' = nevents + 1
    /\ \E session \in {"user", Null} :
        IF session = "user"
        THEN /\ handlers' = handlers + 1
             /\ UNCHANGED <<user, loading, isInitialized, timeoutId>>
        ELSE /\ handlers' = handlers
             /\ Initialized(Null, variant = "part_002")
    /\ UNCHANGED <<variant, mounted, initAuth>>
    /\ Rendered
    /\ UNCHANGED <<storeVars, callVars, cacheVars, form,
                   apc, aop, env, timers, sess, usr, aresult, nauth>>

\* onAuthStateChange: getCurrentUser() of a callback returns
AuthHandlerCurrentUser ==
    /\ handlers > 0
    /\ handlers' = handlers - 1
    /\ \E u \in {"user", Null} : Initialized(u, variant = "part_002")
    /\ UNCHANGED <<variant, mounted, initAuth, nevents>>
    /\ Rendered
    /\ UNCHANGED <<storeVars, callVars, cacheVars, form,
                   apc, aop, env, timers, sess, usr, aresult, nauth>>

\* the safety timer fires: if (mounted) setLoading(false), in the second
\* version if (mounted && !isInitialized)
SafetyTimeout ==
    /\ timeoutId = "armed"
    /\ timeoutId' = "fired"
    /\ IF mounted /\ ~isInitialized
       THEN /\ loading' = TimedOutLoading(loading)
            /\ isInitialized' = (variant = "part_002")
       ELSE UNCHANGED <<loading, isInitialized>>
    /\ UNCHANGED <<variant, mounted, user, initAuth, handlers, nevents>>
    /\ Rendered
    /\ UNCHANGED <<storeVars, callVars, cacheVars, form,
                   apc, aop, env, timers, sess, usr, aresult, nauth>>

\* the cleanup of the effect: the provider is unmounted
Unmount ==
    /\ mounted
    /\ mounted' = FALSE
    /\ timeoutId' = ClearTimeout(timeoutId)
    /\ UNCHANGED <<variant, loading, user, isInitialized, initAuth, handlers, nevents>>
    /\ Rendered
    /\ UNCHANGED <<storeVars, callVars, cacheVars, form,
                   apc, aop, env, timers, sess, usr, aresult, nauth>>

\* signIn of the context has its answer from authRepository.signIn
ContextSignIn ==
    /\ mounted
    /\ \E ok \in BOOLEAN : user' = IF ok THEN "user" ELSE user
    /\ loading' = FALSE
    /\ UNCHANGED <<variant, mounted, isInitialized, timeoutId, initAuth, handlers, nevents>>
    /\ Rendered
    /\ UNCHANGED <<storeVars, callVars, cacheVars, form,
                   apc, aop, env, timers, sess, usr, aresult, nauth>>

\* signOut of the context has its answer from authRepository.signOut
ContextSignOut ==
    /\ mounted
    /\ user # Null
    /\ user' = Null
    /\ UNCHANGED <<variant, mounted, loading, isInitialized, timeoutId, initAuth,
                   handlers, nevents>>
    /\ Rendered
    /\ UNCHANGED <<storeVars, callVars, cacheVars, form,
                   apc, aop, env, timers, sess, usr, aresult, nauth>>

NextProvider ==
    \/ Mount
    \/ AuthInitSession
    \/ AuthInitCurrentUser
    \/ AuthStateChange
    \/ AuthHandlerCurrentUser
    \/ SafetyTimeout
    \/ Unmount
    \/ ContextSignIn
    \/ ContextSignOut

SpecProvider == InitHooks /\ [][NextProvider]_vars

\* the event loop runs a timer that is due; nothing is assumed about the
\* identity provider
SpecProviderFair == SpecProvider /\ WF_vars(SafetyTimeout)

TypeOK ==
    /\ \A b \in BudgetIds : budgets[b] = NoRow \/ budgets[b].spent \in Int
    /\ nextId \in 1..(MaxTxns + 1)
    /\ ncalls \in 0..MaxCalls

\* ------------------------------------------------------------ properties
Quiescent == \A p \in Procs : pc[p] = "idle"

\* a call of caller p that ran alone, in which no step failed, has returned
Returned(p, name) ==
    /\ Done(p)
    /\ call[p].name = name
    /\ ret[p] = "ok"
    /\ ~failed[p]
    /\ solo[p]

\* table tb with the spent of budget b lowered by amount, not below zero
Lowered(tb, b, amount) ==
    [tb EXCEPT ![b].spent = IF @ - amount < 0 THEN 0 ELSE @ - amount]
Raised(tb, b, amount) == [tb EXCEPT ![b].spent = @ + amount]

\* C1: as long as calls run one at a time and no persistence step fails,
\* between calls the spent of every budget is the sum of the amounts of the
\* expense transactions that reference it.
C1_SpentIsSum ==
    (nfaults = 0 /\ nraces = 0 /\ Quiescent) =>
        \A b \in BudgetIds : budgets[b] # NoRow => budgets[b].spent = SumLinked(b)

\* two expense rows on one budget, after an update ran, and spent is their sum
C1_Witness ==
    /\ nfaults = 0 /\ nraces = 0 /\ Quiescent
    /\ \E p \in Procs : Returned(p, "update")
    /\ \E b \in BudgetIds :
        /\ budgets[b] # NoRow
        /\ \A t \in TxnIds : Contributes(txns[t], b)
        /\ budgets[b].spent = 20000

\* C2: whatever the interleaving and whichever steps fail, no budget has a
\* negative spent.
C2_SpentNeverNegative ==
    \A b \in BudgetIds : budgets[b] # NoRow => budgets[b].spent >= 0

\* a delete that ran alone subtracted more than the budget had: spent is 0
C2_Witness ==
    \E p \in Procs :
        /\ Returned(p, "delete")
        /\ old[p] # NoRow /\ old[p].budgetId \in BudgetIds
        /\ old[p].budgetId \in touched[p]
        /\ before[p][old[p].budgetId].spent < old[p].amount
        /\ budgets[old[p].budgetId].spent = 0

\* C3 as stated: create T1 (120.00 on B) gives B.spent = 120.00, updating
\* T1's amount to 80.00 gives B.spent = 40.00, deleting T1 gives 0.00.
C3_Original ==
    /\ scen = "created" => budgets["B"].spent = 12000
    /\ scen = "updated" => budgets["B"].spent = 4000
    /\ scen = "deleted" => budgets["B"].spent = 0

\* C3 as amended: create T1 (120.00 on B) gives B.spent = 120.00, updating
\* T1's amount to 80.00 gives B.spent = 80.00, deleting T1 gives 0.00.
C3_Scenario ==
    /\ scen = "created" => budgets["B"].spent = 12000
    /\ scen = "updated" => budgets["B"].spent = 8000
    /\ scen = "deleted" => budgets["B"].spent = 0

\* the three calls of the scenario have run
C3_Witness == scen = "deleted" /\ txns[1] = NoRow /\ budgets["B"].spent = 0

\* the call of caller p is about income only: the row it created, the row
\* it fetched and wrote back, or the row it fetched and deleted
IncomeCall(p) ==
    \/ call[p].name = "create" /\ data[p] # NoRow /\ data[p].type = "income"
    \/ /\ call[p].name = "update"
       /\ old[p] # NoRow /\ old[p].type = "income"
       /\ data[p] # NoRow /\ data[p].type = "income"
    \/ call[p].name = "delete" /\ old[p] # NoRow /\ old[p].type = "income"

\* C4: a create of an income transaction, an update whose prior and new type
\* are income, and a delete of an income transaction write no budget; when
\* the call ran alone every budget is as it was before the call.
C4_IncomeLeavesBudgets ==
    \A p \in Procs :
        IncomeCall(p) =>
            /\ touched[p] = {}
            /\ (Done(p) /\ solo[p]) => budgets = before[p]

\* an income row linked to a budget that has spent > 0 was updated, alone
C4_Witness ==
    \E p \in Procs :
        /\ Returned(p, "update")
        /\ IncomeCall(p)
        /\ old[p].budgetId \in BudgetIds
        /\ data[p].budgetId = old[p].budgetId
        /\ data[p].amount # old[p].amount
        /\ budgets[old[p].budgetId].spent > 0

\* C5: an update that ran alone and cleared the budget reference of an
\* expense linked to budget A lowers A.spent by the amount of the
\* transaction, not below zero, leaves every other budget as it was, and
\* the transaction references no budget afterwards.
C5_UnlinkSubtracts ==
    \A p \in Procs :
        (/\ Returned(p, "update")
         /\ old[p] # NoRow /\ old[p].type = "expense" /\ old[p].budgetId \in BudgetIds
         /\ data[p].budgetId = Null)
        => /\ budgets = Lowered(before[p], old[p].budgetId, old[p].amount)
           /\ txns[call[p].id].budgetId = Null

\* such an update happened and the budget lost part of its spent
C5_Witness ==
    \E p \in Procs :
        /\ Returned(p, "update")
        /\ old[p] # NoRow /\ old[p].type = "expense" /\ old[p].budgetId \in BudgetIds
        /\ data[p].budgetId = Null
        /\ budgets[old[p].budgetId].spent < before[p][old[p].budgetId].spent

\* the budgets table an update must leave behind: first the prior
\* contribution is taken off, then the new contribution is put on
AfterUpdate(tb, o, d, floor) ==
    LET sub == IF o # NoRow /\ o.type = "expense" /\ o.budgetId \in BudgetIds
               THEN IF floor THEN Lowered(tb, o.budgetId, o.amount)
                    ELSE [tb EXCEPT ![o.budgetId].spent = @ - o.amount]
               ELSE tb
    IN  IF d.type = "expense" /\ d.budgetId \in BudgetIds
        THEN Raised(sub, d.budgetId, d.amount)
        ELSE sub

\* C9 as stated: a successful update lowers the spent of the prior budget by
\* the prior amount and then raises the spent of the new budget by the new
\* amount; no other budget changes.
C9_Original ==
    \A p \in Procs :
        Returned(p, "update") => budgets = AfterUpdate(before[p], old[p], data[p], FALSE)

\* C9 as amended: a successful update lowers the spent of the prior budget by
\* the prior amount, not below zero, and then raises the spent of the new
\* budget by the new amount; no other budget changes.
C9_UpdateAdjustsBothSides ==
    \A p \in Procs :
        Returned(p, "update") => budgets = AfterUpdate(before[p], old[p], data[p], TRUE)

\* an expense was moved from one budget to another
C9_Witness ==
    \E p \in Procs :
        /\ Returned(p, "update")
        /\ old[p] # NoRow /\ old[p].type = "expense" /\ data[p].type = "expense"
        /\ old[p].budgetId \in BudgetIds /\ data[p].budgetId \in BudgetIds
        /\ old[p].budgetId # data[p].budgetId
        /\ budgets[old[p].budgetId].spent < before[p][old[p].budgetId].spent
        /\ budgets[data[p].budgetId].spent > before[p][data[p].budgetId].spent

\* C10: a create writes no budget but the one its expense references; when
\* it ran alone and succeeded, that budget's spent is up by the amount and
\* every other budget is as before, and a create without a budget reference
\* leaves every budget as before.
C10_CreateAdds ==
    \A p \in Procs :
        /\ (call[p].name = "create" /\ data[p] # NoRow) => touched[p] \subseteq {data[p].budgetId}
        /\ Returned(p, "create") =>
            IF data[p].type = "expense" /\ data[p].budgetId \in BudgetIds
            THEN budgets = Raised(before[p], data[p].budgetId, data[p].amount)
            ELSE data[p].budgetId = Null => budgets = before[p]

\* an expense was created on a budget that already had spent > 0
C10_Witness ==
    \E p \in Procs :
        /\ Returned(p, "create")
        /\ data[p].type = "expense" /\ data[p].budgetId \in BudgetIds
        /\ before[p][data[p].budgetId].spent > 0
        /\ budgets[data[p].budgetId].spent > before[p][data[p].budgetId].spent

\* ------------------------------------------------ properties of the hooks
HasTemp(rows) == \E i \in 1..Len(rows) : IsTemp(rows[i].id)

\* C6: right after onError of a mutation whose write failed, the cached
\* collection of its key is exactly what was cached just before onMutate,
\* whatever that was (a query without data included), and after a failed
\* budget create no entry of the cache carries a 'temp-' identifier.
C6_RollbackRestores ==
    \A m \in Muts :
        muts[m].pc = "rejected" =>
            /\ cache[muts[m].key].data = muts[m].pre
            /\ muts[m].kind = "createBudget" =>
                   ~HasTemp(cache["budgets"].data.rows)

\* C7: the delivery of a change event of a table, whatever row it is about,
\* leaves every collection subscribed to the table marked stale with a new
\* fetch of the whole collection under way, and leaves the cached data as it
\* was: nothing of the event is merged.
C7_EventInvalidates ==
    [][\A e \in events :
          e \notin events' =>
              \A k \in SubscribedKeys(e.table) :
                  /\ cache'[k].invalidated
                  /\ cache'[k].fetching
                  /\ cache'[k].resp = NoResp
                  /\ cache'[k].data = cache[k].data]_vars

\* no mutation was ever issued, a write made elsewhere added a row the
\* cached transactions do not hold, and its event has marked the collection
\* stale and started the refetch
C7_Witness ==
    /\ nmuts = 0
    /\ cache["tx-all"].data.has
    /\ cache["tx-all"].invalidated
    /\ cache["tx-all"].fetching
    /\ Len(cache["tx-all"].data.rows) < Len(QueryFn("tx-all"))

\* C8: when a mutation settles, after success or after failure, the
\* collection of its own key is marked stale; for a transaction mutation the
\* budgets collection is marked stale as well; a budget mutation leaves the
\* transaction collections as they were.
C8_SettledInvalidates ==
    [][\A m \in Muts :
          (muts[m].pc # "settled" /\ muts'[m].pc = "settled") =>
              /\ cache'[muts[m].key].invalidated
              /\ muts[m].kind \in TxKinds => cache'["budgets"].invalidated
              /\ muts[m].kind \in BudgetKinds =>
                     \A k \in TxKeys : cache'[k] = cache[k]]_vars

\* a transaction mutation whose write failed has settled, nothing was
\* written anywhere, and both collections are stale
C8_Witness ==
    \E m \in Muts :
        /\ muts[m].pc = "settled"
        /\ ~muts[m].ok
        /\ muts[m].kind \in TxKinds
        /\ nexternal = 0
        /\ cache[muts[m].key].invalidated
        /\ cache["budgets"].invalidated

\* --------------------------------------------- properties, second part
\* C11: a delete that ran alone and succeeded, of an expense linked to a
\* budget, lowers the spent of that budget by the amount of the transaction,
\* not below zero, and leaves every other budget as it was; a delete of a
\* transaction without a budget reference leaves every budget as it was.
C11_DeleteSubtracts ==
    \A p \in Procs :
        (Returned(p, "delete") /\ old[p] # NoRow) =>
            /\ Linked(old[p]) =>
                   budgets = Lowered(before[p], old[p].budgetId, old[p].amount)
            /\ old[p].budgetId = Null => budgets = before[p]
            /\ txns[call[p].id] = NoRow

\* one of two expenses of a budget was deleted: the spent is down by its
\* amount and the amount of the other expense is left
C11_Witness ==
    \E p \in Procs :
        /\ Returned(p, "delete")
        /\ Linked(old[p])
        /\ budgets[old[p].budgetId].spent > 0
        /\ budgets[old[p].budgetId].spent
               = before[p][old[p].budgetId].spent - old[p].amount

\* C12: the delete of a budget deletes no transaction: every transaction is
\* still there afterwards, those that referenced the budget with no budget
\* reference; and in every state every budget reference of a transaction is
\* the identifier of a budget that exists.
C12_DeleteBudgetKeepsTxns ==
    /\ [](\A t \in TxnIds :
             (txns[t] # NoRow /\ txns[t].budgetId # Null) =>
                 /\ txns[t].budgetId \in BudgetIds
                 /\ budgets[txns[t].budgetId] # NoRow)
    /\ [][\A b \in BudgetIds :
             (budgets[b] # NoRow /\ budgets'[b] = NoRow) =>
                 \A t \in TxnIds :
                     txns[t] # NoRow =>
                         /\ txns'[t] # NoRow
                         /\ txns'[t].type = txns[t].type
                         /\ txns'[t].amount = txns[t].amount
                         /\ txns'[t].budgetId =
                                IF txns[t].budgetId = b THEN Null ELSE txns[t].budgetId]_vars

\* a budget that had spent was deleted by a call that ran alone, nothing
\* ever failed or raced, and the expenses are there without budget reference
C12_Witness ==
    \E p \in Procs : \E b \in BudgetIds :
        /\ Done(p) /\ call[p].name = "deleteBudget" /\ ret[p] = "ok" /\ solo[p]
        /\ nfaults = 0 /\ nraces = 0
        /\ before[p][b] # NoRow /\ before[p][b].spent > 0
        /\ budgets[b] = NoRow
        /\ \E t \in TxnIds : txns[t] # NoRow
        /\ \A t \in TxnIds :
               txns[t] # NoRow => (txns[t].budgetId = Null /\ txns[t].type = "expense")

\* the call of caller p is a transaction create, update or delete
TxnCall(p) == call[p].name \in {"create", "update", "delete"}

\* the row write of the call of caller p has happened
RowWritten(p) ==
    \/ call[p].name \in {"create", "update"} /\ data[p] # NoRow
    \/ call[p].name = "delete" /\ old[p] # NoRow /\ txns[call[p].id] = NoRow

\* the transactions table still shows the row write of the call of caller p
RowStands(p) ==
    \/ call[p].name = "create" /\ \E t \in TxnIds : txns[t] = data[p]
    \/ call[p].name = "update" /\ txns[call[p].id] = data[p]
    \/ call[p].name = "delete" /\ txns[call[p].id] = NoRow

\* C13: when a step of updateBudgetSpent (the read or the write of spent)
\* has failed after the transaction row was written, the caller of create,
\* update or delete gets the error, not a successful result.
C13_AdjustmentErrorReachesCaller ==
    \A p \in Procs :
        (Done(p) /\ TxnCall(p) /\ solo[p] /\ failed[p] /\ RowWritten(p)) =>
            ret[p] = "error"

\* the subtraction of the call of caller p was not cut off at zero
NoClamp(p) ==
    Linked(old[p]) => before[p][old[p].budgetId].spent >= old[p].amount

TwoCreatesOn(b) ==
    /\ nfaults = 0 /\ ncalls = 2 /\ Quiescent
    /\ \A p \in Procs :
        /\ call[p].name = "create" /\ ret[p] = "ok"
        /\ Linked(data[p]) /\ data[p].budgetId = b

\* C15: two creates on the same budget that run concurrently, without any
\* failure, leave the spent of the budget at the sum of both amounts or at
\* one of the two amounts alone (the other adjustment is lost), nothing else.
C15_LostUpdate ==
    \A b \in BudgetIds :
        TwoCreatesOn(b) =>
            budgets[b].spent \in {data["p1"].amount + data["p2"].amount,
                                  data["p1"].amount, data["p2"].amount}

\* both creates have completed and the spent is not the sum of the linked
\* expenses: one adjustment is lost
C15_Witness ==
    \E b \in BudgetIds :
        /\ TwoCreatesOn(b)
        /\ budgets[b].spent # SumLinked(b)
        /\ SumLinked(b) = data["p1"].amount + data["p2"].amount

\* C17: getById of a transaction and of a budget hands back null when the
\* store finds no row (PGRST116), the row when there is one, and throws when
\* the store fails otherwise; and an update or delete whose fetch of the
\* prior state found nothing has no subtraction to run, and writes no
\* budget at all when it ran alone.
C17_NotFoundIsNull ==
    /\ [][\A p \in Procs :
             /\ (pc[p] = "getById" /\ pc'[p] # "getById") =>
                    IF nfaults' > nfaults
                    THEN pc'[p] = "idle" /\ ret'[p] = "error"
                    ELSE pc'[p] = "write" /\ old'[p] = txns[call[p].id]
             /\ (pc[p] = "getBudgetById" /\ pc'[p] # "getBudgetById") =>
                    IF nfaults' > nfaults
                    THEN ret'[p] = "error"
                    ELSE ret'[p] = IF budgets[call[p].id] = NoRow
                                   THEN "null" ELSE "ok"]_vars
    /\ [](\A p \in Procs :
             (call[p].name \in {"update", "delete"} /\ old[p] = NoRow) =>
                 /\ solo[p] => touched[p] = {}
                 /\ \A i \in 1..Len(adj[p]) : adj[p][i].operation # "subtract")

\* a delete of a transaction that is not there has returned, alone and
\* without failure, and the budgets, one of them with spent, are untouched
C17_Witness ==
    \E p \in Procs :
        /\ Returned(p, "delete")
        /\ old[p] = NoRow
        /\ \E b \in BudgetIds : budgets[b] # NoRow /\ budgets[b].spent > 0
        /\ budgets = before[p]

\* the field value is not a number, or is the digits of a negative number
NonNumericOrNegative(raw) ==
    \/ \A i \in 1..Len(raw) : ~IsDigit(raw[i])
    \/ raw # <<>> /\ Head(raw) = "-"

\* C16: when the create-transaction, create-budget or edit-budget form is
\* submitted with an amount that is not a number or is negative, the form
\* shows 'Please enter a valid amount' and nothing else happens: no mutation
\* is issued, the cache is as it was and the store is not called.
C16_InvalidAmountRejected ==
    [][\A raw \in FieldValues :
          (/\ NonNumericOrNegative(raw)
           /\ ~form.pending /\ form' # form
           /\ form'.raw = raw /\ form'.dialog # "none")
          => /\ form'.error = "Please enter a valid amount"
             /\ ~form'.pending
             /\ cache' = cache /\ muts' = muts /\ nmuts' = nmuts
             /\ events' = events
             /\ budgets' = budgets /\ txns' = txns /\ nextId' = nextId]_vars

\* the edit dialog of a fetched budget was submitted with -5: the message
\* is shown, no mutation was ever issued and the cache is fresh
C16_Witness ==
    /\ form.dialog = "editBudget"
    /\ form.raw = <<"-", "5">>
    /\ form.error = "Please enter a valid amount"
    /\ ~form.pending
    /\ nmuts = 0
    /\ cache["budgets"].data.has /\ ~cache["budgets"].invalidated

\* C18: signIn does not hang: when signInWithPassword never settles, signIn
\* eventually rejects with the error 'signIn request timed out'.
C18_SignInTimesOut ==
    (apc = "signIn" /\ env.signIn = "hangs")
        ~> (apc = "idle" /\ aop = "signIn"
            /\ aresult = Throws("signIn request timed out"))

\* C19: in the step in which the race on getSession yields a session with a
\* user, getCurrentUser returns that user: getUser is not called and not
\* waited for, whatever it would have done.
C19_SessionUserReturned ==
    [][(apc = "getSession" /\ sess' = "user") =>
          /\ apc' = "idle"
          /\ aresult' = ReturnsUser("session")
          /\ usr' = "none"
          /\ timers' = timers]_vars

\* getCurrentUser has returned the user of the session although getUser
\* would never have answered
C19_Witness ==
    /\ aop = "getCurrentUser" /\ apc = "idle"
    /\ env.getSession = "user" /\ env.getUser = "hangs"
    /\ sess = "user" /\ usr = "none"
    /\ aresult = ReturnsUser("session")

\* getCurrentUser has returned
CurrentUserDone == aop = "getCurrentUser" /\ apc = "idle"

\* C20: getCurrentUser never throws: it ends with a user or with null, and
\* with null when getSession reported an error, timed out or rejected, and
\* when there was no session and getUser yielded no user or an error, timed
\* out or rejected; and it always completes.
C20_CurrentUserNeverThrows ==
    /\ [](CurrentUserDone =>
             /\ aresult.kind \in {"user", "null"}
             /\ sess \in {"error", "timeout", "throws"} => aresult = ReturnsNull
             /\ (sess = "null" /\ usr \in {"null", "error", "timeout", "throws"})
                    => aresult = ReturnsNull)
    /\ ((aop = "getCurrentUser" /\ apc # "idle") ~> CurrentUserDone)

\* there was no session, getUser never answered, its timer fired and
\* getCurrentUser returned null
C20_Witness ==
    /\ CurrentUserDone
    /\ env.getUser = "hangs"
    /\ sess = "null" /\ usr = "timeout"
    /\ aresult = ReturnsNull

\* --------------------------------------------- properties, third part
\* C26: when the row write of create, update or delete fails (the store
\* answers the insert, the update or the delete with an error), the call
\* throws in that very step with no adjustment queued and no budget
\* written; and a transaction call that ended with an error has written no
\* budget: when it ran alone every budget is as it was before the call.
C26_RowWriteFailureThrows ==
    /\ [][\A p \in Procs :
             (/\ pc[p] \in {"insert", "write"} /\ pc'[p] # pc[p]
              /\ IF call[p].name = "delete" THEN nfaults' > nfaults
                 ELSE data'[p] = NoRow)
             => /\ pc'[p] = "idle"
                /\ ret'[p] = "error"
                /\ adj'[p] = <<>>
                /\ touched'[p] = {}
                /\ budgets' = budgets
                /\ txns' = txns]_vars
    /\ [](\A p \in Procs :
             (Done(p) /\ TxnCall(p) /\ ret[p] = "error") =>
                 /\ touched[p] = {}
                 /\ solo[p] => budgets = before[p])

\* the update of an expense linked to a budget with spent failed at the row
\* write: the call threw, the row and the budget are as before
C26_Witness ==
    \E p \in Procs :
        /\ Done(p) /\ call[p].name = "update" /\ ret[p] = "error" /\ solo[p]
        /\ Linked(old[p]) /\ data[p] = NoRow
        /\ txns[call[p].id] = old[p]
        /\ budgets[old[p].budgetId].spent > 0
        /\ budgets = before[p]

\* two deletes of transaction t overlapped, no step failed, both returned
TwoDeletesOf(t) ==
    /\ nfaults = 0 /\ Quiescent
    /\ \A p \in Procs : call[p].name = "delete" /\ call[p].id = t /\ ret[p] = "ok"

\* C27: whatever the interleaving of two deletes of the same expense linked
\* to a budget, only one of them finds the row and subtracts: the budget is
\* written by one of the two calls, and its spent ends at the sum of the
\* expenses still linked to it.
C27_DoubleDeleteSubtractsOnce ==
    \A t \in TxnIds : \A b \in BudgetIds :
        (TwoDeletesOf(t) /\ \E p \in Procs : Linked(old[p]) /\ old[p].budgetId = b) =>
            /\ ~(\A p \in Procs : b \in touched[p])
            /\ budgets[b] # NoRow => budgets[b].spent = SumLinked(b)

\* the cached budgets
CachedBudgets == cache["budgets"].data.rows

\* C30: an edit of a budget never changes its spent, and a new budget starts
\* with spent 0. The optimistic update of a budget keeps the identifier and
\* the spent of every cached entry; the optimistic create puts an entry with
\* a temporary identifier and spent 0 in front; the write of an update
\* leaves the spent of every budget in the store as it is at that moment,
\* also when it was adjusted after the edit was issued; the write of a
\* create adds a budget with spent 0 and changes no other.
C30_EditKeepsSpent ==
    [][\A m \in Muts :
          /\ (muts[m].pc # "pending" /\ muts'[m].pc = "pending"
              /\ muts'[m].kind = "updateBudget")
             => /\ Len(CachedBudgets') = Len(CachedBudgets)
                /\ \A i \in 1..Len(CachedBudgets) :
                       /\ CachedBudgets'[i].id = CachedBudgets[i].id
                       /\ CachedBudgets'[i].spent = CachedBudgets[i].spent
          /\ (muts[m].pc # "pending" /\ muts'[m].pc = "pending"
              /\ muts'[m].kind = "createBudget")
             => /\ Tail(CachedBudgets') = CachedBudgets
                /\ Head(CachedBudgets').spent = 0
                /\ IsTemp(Head(CachedBudgets').id)
          /\ (muts[m].pc = "pending" /\ muts'[m].pc = "written" /\ muts'[m].ok
              /\ muts[m].kind = "updateBudget")
             => \A b \in BudgetIds :
                    IF budgets[b] = NoRow THEN budgets'[b] = NoRow
                    ELSE budgets'[b] # NoRow /\ budgets'[b].spent = budgets[b].spent
          /\ (muts[m].pc = "pending" /\ muts'[m].pc = "written" /\ muts'[m].ok
              /\ muts[m].kind = "createBudget")
             => /\ \E b \in BudgetIds : budgets[b] = NoRow /\ budgets'[b] # NoRow
                /\ \A b \in BudgetIds :
                       IF budgets[b] = NoRow
                       THEN budgets'[b] = NoRow \/ budgets'[b].spent = 0
                       ELSE budgets'[b] = budgets[b]]_vars

\* the edit of budget A was issued when its spent was 80.00, an expense
\* created elsewhere raised the spent to 200.00 while the edit was in
\* flight, and the write of the edit has changed the amount only
C30_Witness ==
    \E m \in Muts :
        /\ muts[m].pc = "written" /\ muts[m].ok
        /\ muts[m].kind = "updateBudget" /\ muts[m].budget = "A"
        /\ muts[m].ctx.has
        /\ \E i \in 1..Len(muts[m].ctx.rows) :
               muts[m].ctx.rows[i].id = "A" /\ muts[m].ctx.rows[i].spent = 8000
        /\ budgets["A"] # NoRow
        /\ budgets["A"].spent = 20000
        /\ budgets["A"].amount = muts[m].input.amount

\* C24: the loading flag of a mounted AuthProvider does not stay true for
\* ever, even when the identity provider never answers: it is false once
\* initAuth has finished, once an auth state event has been handled to the
\* end, and once the safety timer has fired; it is never set back to true;
\* and a provider that is loading eventually is not (or is unmounted).
C24_LoadingEnds ==
    /\ []((mounted /\ initAuth = "done") => ~loading)
    /\ []((mounted /\ timeoutId = "fired") => ~loading)
    /\ [][(mounted' /\ (handlers' < handlers
                        \/ (nevents' > nevents /\ handlers' = handlers)))
             => ~loading']_vars
    /\ [][~loading => ~loading']_vars
    /\ ((mounted /\ loading) ~> (~loading \/ ~mounted))

\* the identity provider never answered and no event came: the safety timer
\* has ended the loading
C24_Witness ==
    /\ mounted /\ ~loading
    /\ timeoutId = "fired"
    /\ initAuth = "getSession"
    /\ nevents = 0
    /\ user = Null

\* C25: ProtectedRoute shows its children only when loading is false and
\* there is a user; while loading it shows the spinner; with loading false
\* and no user it redirects to /login.
C25_ProtectedRoute ==
    /\ view = "children" => (~loading /\ user # Null)
    /\ (mounted /\ loading) => view = "spinner"
    /\ (mounted /\ ~loading /\ user = Null) => view = "redirect"
    /\ (mounted /\ ~loading /\ user # Null) => view = "children"

\* the session check found a user and the children are shown
C25_Witness ==
    /\ mounted /\ initAuth = "done"
    /\ ~loading /\ user = "user"
    /\ view = "children"

\* where a cached collection stands
Status(q) ==
    IF q.fetching THEN "loading"
    ELSE IF q.invalidated THEN "stale"
    ELSE IF q.data.has THEN "fresh"
    ELSE "unfetched"

\* the step delivers a change event / settles a mutation / is a fetch that
\* failed / is a fetch of key k that returned
EventStep == events' # events /\ events' \subseteq events
SettleStep == \E m \in DOMAIN muts : muts[m].pc # "settled" /\ muts'[m].pc = "settled"
FetchFailStep == nfaults' > nfaults
RollbackStep == \E m \in DOMAIN muts : muts[m].pc # "rejected" /\ muts'[m].pc = "rejected"
FetchReturnStep(k) ==
    cache[k].resp.has /\ ~cache'[k].resp.has /\ ~cache'[k].fetching /\ nmuts' = nmuts

HasId(rows, id) == \E i \in 1..Len(rows) : rows[i].id = id

\* C21: the rollback of a failed mutation puts back the snapshot the
\* mutation took at its own onMutate, whatever the other mutations on the
\* collection have done since, and what it puts back stays in the cache
\* until a fetch of the key returns or another mutation writes the
\* collection: the cached data change in no other step.
C21_RollbackLastSnapshotWins ==
    [][/\ \A m \in DOMAIN muts :
             (muts[m].pc = "written" /\ muts'[m].pc = "rejected" /\ muts[m].ctx.has) =>
                 cache'[muts[m].key].data = muts[m].ctx
       /\ \A k \in DOMAIN cache :
             cache'[k].data # cache[k].data =>
                 nmuts' > nmuts \/ RollbackStep \/ FetchReturnStep(k)]_vars

\* two budget creates were issued one after the other and both failed, the
\* first one first: its rollback took the entry of the second out of the
\* cache while the second was in flight, and the rollback of the second
\* has put the entry of the first back, next to the budget that exists;
\* the refetch has not returned yet
C21_Witness ==
    \E m1, m2 \in DOMAIN muts :
        /\ m1 # m2
        /\ \A m \in {m1, m2} :
              muts[m].pc = "settled" /\ ~muts[m].ok /\ muts[m].kind = "createBudget"
        /\ nmuts = 2
        /\ cache["budgets"].data.has
        /\ HasId(cache["budgets"].data.rows, "temp-1")
        /\ ~HasId(cache["budgets"].data.rows, "temp-2")
        /\ HasId(cache["budgets"].data.rows, "A")
        /\ ~HasId(QueryFn("budgets"), "B")
        /\ cache["budgets"].fetching

\* the rows carry no identifier made up by onMutate
NoSpeculativeId(k, rows) ==
    \A i \in 1..Len(rows) :
        IF k = "budgets" THEN ~IsTemp(rows[i].id) ELSE rows[i].id > 0

\* C22: a fetch that returns replaces the cached collection by exactly the
\* rows it read from the store, which carry no speculative entry, also
\* while mutations on the key are in flight: a refetch started by the
\* settlement of another mutation or by a change event takes the
\* speculative entry of a mutation out of the cache before that mutation
\* settles.
C22_RefetchDropsSpeculative ==
    [][\A k \in DOMAIN cache :
          FetchReturnStep(k) =>
              /\ cache'[k].data = Some(cache[k].resp.rows)
              /\ NoSpeculativeId(k, cache'[k].data.rows)]_vars

\* the amount of an expense was edited and a budget create was issued
\* before the edit settled; the settlement of the edit has marked the
\* budgets stale, the refetch has returned, and the cache holds the
\* budgets of the store without the entry of the create, which is still
\* pending
C22_Witness ==
    /\ nmuts = 2
    /\ muts[1].pc = "settled" /\ muts[1].kind = "updateTransaction" /\ muts[1].ok
    /\ muts[2].pc = "pending" /\ muts[2].kind = "createBudget"
    /\ cache["budgets"].data = Some(QueryFn("budgets"))
    /\ ~HasId(cache["budgets"].data.rows, "temp-2")
    /\ ~cache["budgets"].fetching
    /\ ~cache["budgets"].invalidated

\* every cached collection holds the rows of the store for its key and no
\* fetch is under way
Converged ==
    \A k \in DOMAIN cache :
        /\ cache[k].data = Some(QueryFn(k))
        /\ NoSpeculativeId(k, cache[k].data.rows)
        /\ ~cache[k].fetching

Concerns(mu, k) ==
    /\ k \notin {"budgets", mu.key}
    /\ IF mu.kind = "createTransaction"
       THEN k = "tx-all" \/ (k = "tx-A" /\ mu.input.budgetId = "A")
       ELSE HasId(cache[k].data.rows, mu.txn)

\* C29: when a transaction mutation settles, every other cached
\* transaction collection that can hold the transaction is marked stale in
\* the same step.
C29_SettlementMarksOtherLists ==
    [][\A m \in DOMAIN muts :
          (muts[m].pc # "settled" /\ muts'[m].pc = "settled" /\ muts[m].kind \in TxKinds) =>
              \A k \in DOMAIN cache :
                  Concerns(muts[m], k) => cache'[k].invalidated]_vars
====
